---- MODULE Spec2Model ----
(***************************************************************************)
(* Model of the lite-hmrc interchange core:                                *)
(*   mail/tasks.py                      the background tasks               *)
(*   mail/libraries/builders.py         the flat-file and DTO builders     *)
(*   mail/libraries/mailbox_service.py  the inbound deduplication ledger   *)
(*                                                                         *)
(* Text is a sequence of one-character strings, so that split, join and    *)
(* replace are computed the way the Python code computes them.             *)
(*                                                                         *)
(* The database is a transactional store at READ COMMITTED: a statement    *)
(* sees what is committed when it runs plus its own transaction's writes;  *)
(* SELECT ... FOR UPDATE NOWAIT fails when a row it selects is locked by   *)
(* another transaction; UPDATE waits for such a row.                       *)
(***************************************************************************)
EXTENDS Integers, Sequences, FiniteSets, TLC

VARIABLES
    \* ---- licence updates (tasks.send_licence_data_to_hmrc) ----
    payloads,      \* LicencePayload rows, committed: id -> [present, is_processed, skip]
    mails,         \* Mail rows, committed, in creation order
    licenceData,   \* LicenceData rows, committed, in creation order
    nextMailId,    \* the Mail primary-key sequence (never rolled back)
    lockedBy,      \* row locks on LicencePayload: id -> worker or None
    outbox,        \* licence-update emails handed to the SMTP server, in order
    pc,            \* worker -> position inside send_licence_data_to_hmrc
    txn,           \* worker -> the open transaction's local state
    result,        \* worker -> how the worker's last invocation ended
    \* ---- inbound mail (mailbox_service.get_message_iterator) ----
    mailbox,       \* the POP3 maildrop: messages in listing order (num = position)
    ledger,        \* MailReadStatus rows of the mailbox: [message_id, message_num, status]
    poll,          \* poller -> the generator's frame and its caller's position
    delivered,     \* the number of messages delivered so far
    finalized,     \* history: message id -> rows of it that went to Read/Unprocessable
    \* ---- usage figures (tasks.send_licence_usage_figures_to_lite_api) ----
    tasks,         \* usage id -> its Task rows in usage_figures_queue, oldest first
    usageData,     \* usage id -> the UsageData row and its Mail's status
    upstream,      \* how the LITE API behaves from now on
    handoff,       \* history: usage id -> unscheduled, scheduled or handed_off
    \* ---- resend requests (builders._build_request_mail_message_dto_internal) ----
    resend_mail,   \* the Mail row a resend is requested for
    resend_run,    \* the spire_run_number of its UsageData row, if it has one
    resend_dtos,   \* what the resend builder returned, request by request
    \* ---- run-number stamping (builders.build_sent_filename, build_sent_file_data) ----
    stamp_in,      \* what is stamped: a filename or a file's content, and the run number
    stamp_out,     \* the results of stamping it, then of stamping each result again
    \* ---- outbound messages (builders.build_email_message) ----
    email_dto,     \* the DTO a message is built from, or NoDto
    email_message  \* what build_email_message returned or raised for it

licVars == <<payloads, mails, licenceData, nextMailId, lockedBy, outbox, pc, txn, result>>

pollVars == <<mailbox, ledger, poll, delivered, finalized>>

usageVars == <<tasks, usageData, upstream, handoff>>

resendVars == <<resend_mail, resend_run, resend_dtos>>

stampVars == <<stamp_in, stamp_out>>

emailVars == <<email_dto, email_message>>

vars == <<licVars, pollVars, usageVars, resendVars, stampVars, emailVars>>

-----------------------------------------------------------------------------
(* Text helpers: Python's str.split, str.join, str.replace, str(int).      *)

\* the characters of s before the first sep, or all of s
RECURSIVE UpTo(_, _)
UpTo(s, sep) ==
    IF s = <<>> \/ Head(s) = sep THEN <<>> ELSE <<Head(s)>> \o UpTo(Tail(s), sep)

\* str.split(sep): always at least one field
RECURSIVE Split(_, _)
Split(s, sep) ==
    LET first == UpTo(s, sep)
    IN  IF Len(first) = Len(s) THEN <<first>>
        ELSE <<first>> \o Split(SubSeq(s, Len(first) + 2, Len(s)), sep)

\* str.split(sep, 1): at most two fields
Split1(s, sep) ==
    LET first == UpTo(s, sep)
    IN  IF Len(first) = Len(s) THEN <<first>>
        ELSE <<first, SubSeq(s, Len(first) + 2, Len(s))>>

\* sep.join(parts)
RECURSIVE Join(_, _)
Join(parts, sep) ==
    IF parts = <<>> THEN <<>>
    ELSE IF Len(parts) = 1 THEN parts[1]
    ELSE parts[1] \o <<sep>> \o Join(Tail(parts), sep)

\* s.replace(c, "")
RECURSIVE Remove(_, _)
Remove(s, c) ==
    IF s = <<>> THEN <<>>
    ELSE IF Head(s) = c THEN Remove(Tail(s), c)
    ELSE <<Head(s)>> \o Remove(Tail(s), c)

Digit(d) == CASE d = 0 -> "0" [] d = 1 -> "1" [] d = 2 -> "2" [] d = 3 -> "3"
              [] d = 4 -> "4" [] d = 5 -> "5" [] d = 6 -> "6" [] d = 7 -> "7"
              [] d = 8 -> "8" [] d = 9 -> "9"

\* s.strip(c)
RECURSIVE LStrip(_, _)
LStrip(s, c) == IF s # <<>> /\ Head(s) = c THEN LStrip(Tail(s), c) ELSE s

RECURSIVE RStrip(_, _)
RStrip(s, c) ==
    IF s # <<>> /\ s[Len(s)] = c THEN RStrip(SubSeq(s, 1, Len(s) - 1), c) ELSE s

Strip(s, c) == RStrip(LStrip(s, c), c)

\* str(n) for n >= 0
RECURSIVE Str(_)
Str(n) == IF n < 10 THEN <<Digit(n)>> ELSE Str(n \div 10) \o <<Digit(n % 10)>>

\* Python's None where text is expected, and a raised exception as a value
None == <<"None">>
Raise(kind) == <<kind>>
Exceptions == {"IndexError", "TypeError", "DoesNotExist", "AttributeError"}
IsRaise(v) == Len(v) = 1 /\ v[1] \in Exceptions

-----------------------------------------------------------------------------
(* mail/enums.py, as the source uses them                                  *)

LICENCE_DATA == "licence_data"
LICENCE_REPLY == "licence_reply"
USAGE_DATA == "usage_data"
USAGE_REPLY == "usage_reply"

PENDING == "pending"
REPLY_PENDING == "reply_pending"
REPLY_RECEIVED == "reply_received"
REPLY_SENT == "reply_sent"

\* django settings the builders read
EMAIL_USER == <<"EMAIL_USER">>
INCOMING_EMAIL_USER == <<"INCOMING_EMAIL_USER">>
OUTGOING_EMAIL_USER == <<"OUTGOING_EMAIL_USER">>
HMRC_ADDRESS == <<"HMRC_ADDRESS">>
SPIRE_ADDRESS == <<"SPIRE_ADDRESS">>

-----------------------------------------------------------------------------
(* mail/libraries/builders.py                                              *)

\* mutant: the run number is written one field early
build_sent_filename_field_3(filename, run_number) ==
    LET fields == Split(filename, "_")
    IN  IF Len(fields) < 5 THEN Raise("IndexError")
        ELSE Join([fields EXCEPT ![4] = Str(run_number)], "_")

\* filename.split("_"); filename[4] = str(run_number); "_".join(filename)
build_sent_filename(filename, run_number) ==
    LET fields == Split(filename, "_")
    IN  IF Len(fields) < 5 THEN Raise("IndexError")
        ELSE Join([fields EXCEPT ![5] = Str(run_number)], "_")

\* only line 1 is rewritten: field 6 of its backslash-delimited fields
build_sent_file_data(file_data, run_number) ==
    LET file_data_lines == Split1(file_data, "\n")
        file_data_line_1 == Split(file_data_lines[1], "\\")
    IN  IF Len(file_data_line_1) < 7 THEN Raise("IndexError")
        ELSE IF Len(file_data_lines) < 2 THEN Raise("IndexError")
        ELSE Join([file_data_line_1 EXCEPT ![7] = Str(run_number)], "\\")
                 \o <<"\n">> \o file_data_lines[2]

\* timezone.now(), formatted {:04d}{:02d}{:02d}{:02d}{:02d}
Now == <<"2","0","2","4","0","1","0","1","1","0","3","0">>

\* the reference of LicencePayload row i
reference(i) == <<"G", "B", Digit(i)>>

\* the rows of a queryset in primary-key order
RECURSIVE Ordered(_)
Ordered(ids) ==
    IF ids = {} THEN <<>>
    ELSE LET lo == CHOOSE i \in ids : \A j \in ids : i <= j
         IN  <<lo>> \o Ordered(ids \ {lo})

\* lite_to_edifact_converter.licences_to_edifact: a header line stamped with
\* the run number, one line per licence, a trailer line
RECURSIVE LicenceLines(_, _)
LicenceLines(ids, n) ==
    IF ids = <<>> THEN <<>>
    ELSE <<Str(n) \o <<"\\","l","i","c","e","n","c","e","\\">> \o reference(Head(ids))>>
         \o LicenceLines(Tail(ids), n + 1)

licences_to_edifact(licences, run_number) ==
    LET header == <<"1","\\","f","i","l","e","H","e","a","d","e","r","\\","S","P","I","R","E",
                    "\\","C","H","I","E","F","\\","l","i","c","e","n","c","e","D","a","t","a","\\">>
                  \o Now \o <<"\\">> \o Str(run_number) \o <<"\\","N">>
        body == LicenceLines(Ordered(licences), 2)
        trailer == Str(Cardinality(licences) + 2) \o <<"\\","f","i","l","e","T","r","a","i","l","e","r">>
    IN  Join(<<header>> \o body \o <<trailer>>, "\n")

build_licence_data_file(licences, run_number) ==
    LET file_name == <<"C","H","I","E","F","_","L","I","V","E","_","S","P","I","R","E","_",
                       "l","i","c","e","n","c","e","D","a","t","a","_">>
                     \o Str(run_number) \o <<"_">> \o Now
        file_content == licences_to_edifact(licences, run_number)
    IN  <<file_name, file_content>>

\* mutant: the newest row's run number is reused, not incremented
next_run_number_reused(rows) ==
    IF rows = <<>> THEN 1 ELSE rows[Len(rows)].hmrc_run_number

\* LicenceData.objects.last(): the run number of the newest row, or 1
next_run_number(rows) ==
    IF rows = <<>> THEN 1 ELSE rows[Len(rows)].hmrc_run_number + 1

\* the Mail and LicenceData rows build_licence_data_mail creates
build_licence_data_mail(licences, run_number, id) ==
    LET file == build_licence_data_file(licences, run_number)
    IN  [mail |-> [id |-> id,
                   status |-> PENDING,
                   extract_type |-> LICENCE_DATA,
                   edi_filename |-> file[1],
                   edi_data |-> file[2],
                   sent_filename |-> None,
                   sent_data |-> None],
         licence_data |-> [mail |-> id,
                           hmrc_run_number |-> run_number,
                           source |-> "LITE",
                           licence_ids |-> licences]]

\* usage_data_decomposition.split_edi_data_by_id: the lines of the SPIRE party
\* and of the LITE party; header (first) and trailer (last) line go to both,
\* a body line to LITE when its licence reference (field 2) starts with "G"
split_edi_data_by_id(edi_data) ==
    LET lines == Split(edi_data, "\n")
        IsLite(l) == LET f == Split(l, "\\")
                     IN  Len(f) >= 3 /\ f[3] # <<>> /\ f[3][1] = "G"
        Edge(k) == k = 1 \/ k = Len(lines)
        spire == SelectSeq([k \in 1..Len(lines) |-> <<k, lines[k]>>],
                           LAMBDA p : Edge(p[1]) \/ ~IsLite(p[2]))
        lite == SelectSeq([k \in 1..Len(lines) |-> <<k, lines[k]>>],
                          LAMBDA p : Edge(p[1]) \/ IsLite(p[2]))
    IN  <<[k \in 1..Len(spire) |-> spire[k][2]], [k \in 1..Len(lite) |-> lite[k][2]]>>

\* usage_data_decomposition.build_edifact_file_from_data_blocks
build_edifact_file_from_data_blocks(data_blocks) == Join(data_blocks, "\n")

EmailMessageDto(run_number, sender, receiver, attachment) ==
    [run_number |-> run_number, sender |-> sender, receiver |-> receiver,
     subject |-> attachment[1], body |-> None, attachment |-> attachment,
     raw_data |-> None]

\* the attachment of a usage-data request: rebuilt from the SPIRE blocks and
\* stamped, or [None, None] when SPIRE has header and trailer only
usage_attachment(mail, run_number) ==
    LET spire_data == split_edi_data_by_id(mail.edi_data)[1]
    IN  IF Len(spire_data) > 2
        THEN <<build_sent_filename(mail.edi_filename, run_number),
               build_sent_file_data(build_edifact_file_from_data_blocks(spire_data), run_number)>>
        ELSE <<None, None>>

\* run is LicenceData.hmrc_run_number (licence data) or UsageData.spire_run_number
build_request_mail_message_dto(mail, run) ==
    IF mail.extract_type = LICENCE_DATA
    THEN EmailMessageDto(run, INCOMING_EMAIL_USER, OUTGOING_EMAIL_USER,
                         <<build_sent_filename(mail.edi_filename, run),
                           build_sent_file_data(mail.edi_data, run)>>)
    ELSE IF mail.extract_type = USAGE_DATA
    THEN EmailMessageDto(run, HMRC_ADDRESS, SPIRE_ADDRESS, usage_attachment(mail, run))
    ELSE EmailMessageDto(0, None, None, <<None, None>>)

\* the resend builder; NoDto is Python's None returned for an unknown kind
NoDto == [none |-> TRUE]

\* mutant: the recorded file is stamped again with the run number at hand
_build_request_mail_message_dto_internal_restamped(mail, run) ==
    IF mail.extract_type = LICENCE_DATA
    THEN EmailMessageDto(0, EMAIL_USER, OUTGOING_EMAIL_USER,
                         <<build_sent_filename(mail.sent_filename, run),
                           build_sent_file_data(mail.sent_data, run)>>)
    ELSE IF mail.extract_type = LICENCE_REPLY
    THEN EmailMessageDto(0, EMAIL_USER, SPIRE_ADDRESS,
                         <<build_sent_filename(mail.sent_response_filename, run),
                           build_sent_file_data(mail.sent_response_data, run)>>)
    ELSE IF mail.extract_type = USAGE_DATA
    THEN EmailMessageDto(run, EMAIL_USER, SPIRE_ADDRESS, usage_attachment(mail, run))
    ELSE NoDto

_build_request_mail_message_dto_internal(mail, run) ==
    IF mail.extract_type = LICENCE_DATA
    THEN EmailMessageDto(0, EMAIL_USER, OUTGOING_EMAIL_USER,
                         <<mail.sent_filename, mail.sent_data>>)
    ELSE IF mail.extract_type = LICENCE_REPLY
    THEN EmailMessageDto(0, EMAIL_USER, SPIRE_ADDRESS,
                         <<mail.sent_response_filename, mail.sent_response_data>>)
    ELSE IF mail.extract_type = USAGE_DATA
    THEN EmailMessageDto(run, EMAIL_USER, SPIRE_ADDRESS, usage_attachment(mail, run))
    ELSE NoDto


\* str(v) of an f-string: None is written as the text None
Format(v) == IF v = None THEN <<"N", "o", "n", "e">> ELSE v

\* unidecode of one character: ASCII is kept, a known character is written
\* in ASCII (as in tests/test_builders.py), an unknown one is replaced
Transliterate(ch) ==
    CASE ch = "U+5317" -> <<"B", "e", "i", " ">>
      [] ch = "U+1D5C4" -> <<"k">>
      [] ch = "U+E000" -> <<"?">>
      [] OTHER -> <<ch>>

\* unidecode(string, errors="replace"); None has no encode method
RECURSIVE unidecode(_)
unidecode(string) ==
    IF string = None THEN Raise("AttributeError")
    ELSE IF string = <<>> THEN <<>>
    ELSE Transliterate(Head(string)) \o unidecode(Tail(string))

\* email.message.Message: headers in the order they were added, a payload
Header(name, value) == [name |-> name, value |-> value]

\* Message.__setitem__ and Message.add_header: the header is appended
add_header(msg, name, value) == [msg EXCEPT !.headers = Append(@, Header(name, value))]

\* Message.set_payload
set_payload(msg, payload) == [msg EXCEPT !.payload = payload]

\* Message.attach
attach(msg, part) == [msg EXCEPT !.payload = Append(@, part)]

\* Message.get_all: every value of the header, in order
get_all(msg, name) ==
    LET at == {k \in 1..Len(msg.headers) : msg.headers[k].name = name}
        RECURSIVE from(_)
        from(k) == IF k > Len(msg.headers) THEN <<>>
                   ELSE IF k \in at THEN <<msg.headers[k].value>> \o from(k + 1)
                   ELSE from(k + 1)
    IN  from(1)

SEVEN_BIT == <<"7", "b", "i", "t">>
BASE64 == <<"b", "a", "s", "e", "6", "4">>
QUOTED_PRINTABLE == <<"q", "u", "o", "t", "e", "d", "-", "p", "r", "i", "n", "t", "a", "b", "l", "e">>
TEXT_PLAIN == <<"t", "e", "x", "t", "/", "p", "l", "a", "i", "n">>
OCTET_STREAM == <<"a", "p", "p", "l", "i", "c", "a", "t", "i", "o", "n", "/",
                  "o", "c", "t", "e", "t", "-", "s", "t", "r", "e", "a", "m">>
MULTIPART_MIXED == <<"m", "u", "l", "t", "i", "p", "a", "r", "t", "/", "m", "i", "x", "e", "d">>

\* the base64 text of data, kept as the marked data
b64encode(data) == <<"base64(">> \o data \o <<")">>

MIMEMultipart ==
    [outcome |-> "message",
     headers |-> <<Header("Content-Type", MULTIPART_MIXED), Header("MIME-Version", <<"1", ".", "0">>)>>,
     payload |-> <<>>]

\* MIMEText(text, "plain", "iso-8859-1"): quoted-printable leaves line ends as they are
MIMEText(text) ==
    [outcome |-> "message",
     headers |-> <<Header("Content-Type", TEXT_PLAIN), Header("MIME-Version", <<"1", ".", "0">>),
                   Header("Content-Transfer-Encoding", QUOTED_PRINTABLE)>>,
     payload |-> text]

\* MIMEApplication(data): the default encoder stores the base64 text and
\* adds its Content-Transfer-Encoding header
MIMEApplication(data) ==
    [outcome |-> "message",
     headers |-> <<Header("Content-Type", OCTET_STREAM), Header("MIME-Version", <<"1", ".", "0">>),
                   Header("Content-Transfer-Encoding", BASE64)>>,
     payload |-> b64encode(data)]

Raised(kind) == [outcome |-> "raised", kind |-> kind]

\* _validate_dto: the DTO and its attachment must not be None
_validate_dto(email_message_dto) ==
    IF email_message_dto = NoDto THEN "TypeError"
    ELSE IF email_message_dto.attachment = None THEN "TypeError"
    ELSE "ok"

ContentDisposition(filename) ==
    <<"a", "t", "t", "a", "c", "h", "m", "e", "n", "t", ";", " ",
      "f", "i", "l", "e", "n", "a", "m", "e", "=", "\"">> \o Format(filename) \o <<"\"">>

\* mutant: the message is sent in the name of the DTO's sender
build_email_message_from_sender(email_message_dto) ==
    IF _validate_dto(email_message_dto) # "ok" THEN Raised(_validate_dto(email_message_dto))
    ELSE LET file == unidecode(email_message_dto.attachment[2])
         IN  IF IsRaise(file) THEN Raised(file[1])
             ELSE LET multipart_msg ==
                          attach(add_header(add_header(add_header(add_header(MIMEMultipart,
                              "From", email_message_dto.sender),
                              "To", email_message_dto.receiver),
                              "Subject", email_message_dto.subject),
                              "name", email_message_dto.subject),
                              MIMEText(<<"\n", "\n">>))
                      payload ==
                          add_header(add_header(add_header(
                              set_payload(MIMEApplication(file), file),
                              "Content-Disposition", ContentDisposition(email_message_dto.attachment[1])),
                              "Content-Transfer-Encoding", SEVEN_BIT),
                              "name", email_message_dto.subject)
                  IN  attach(multipart_msg, payload)

build_email_message(email_message_dto) ==
    IF _validate_dto(email_message_dto) # "ok" THEN Raised(_validate_dto(email_message_dto))
    ELSE LET file == unidecode(email_message_dto.attachment[2])
         IN  IF IsRaise(file) THEN Raised(file[1])
             ELSE LET multipart_msg ==
                          attach(add_header(add_header(add_header(add_header(MIMEMultipart,
                              "From", EMAIL_USER),
                              "To", email_message_dto.receiver),
                              "Subject", email_message_dto.subject),
                              "name", email_message_dto.subject),
                              MIMEText(<<"\n", "\n">>))
                      payload ==
                          add_header(add_header(add_header(
                              set_payload(MIMEApplication(file), file),
                              "Content-Disposition", ContentDisposition(email_message_dto.attachment[1])),
                              "Content-Transfer-Encoding", SEVEN_BIT),
                              "name", email_message_dto.subject)
                  IN  attach(multipart_msg, payload)


-----------------------------------------------------------------------------
(* mail/tasks.py: send_licence_data_to_hmrc                                *)

MaxLicences == 2     \* LicencePayload rows that may arrive
MaxMails == 2        \* builds started, by the Mail primary-key sequence

Workers == {"w1", "w2"}      \* task runners that may run the task at once
LicenceIds == 1..MaxLicences
Free == "free"

\* Mail.objects.exclude(status=REPLY_SENT).values_list("id")
_get_pending_mail(rows) ==
    {rows[k].id : k \in {j \in 1..Len(rows) : rows[j].status # REPLY_SENT}}

\* mutant: only a Mail still in its created status counts as in flight
_is_email_slot_free_created_only(rows) ==
    \A k \in 1..Len(rows) : rows[k].status # PENDING

_is_email_slot_free(rows) == _get_pending_mail(rows) = {}

\* LicencePayload.objects.filter(is_processed=False, skip=False)
Unprocessed(rows) ==
    {i \in LicenceIds : rows[i].present /\ ~rows[i].is_processed /\ ~rows[i].skip}

\* mutant: the rows are selected without asking for their locks
LockedByOther_not_asked(w, rows) == FALSE

\* a row of the queryset is locked by another transaction
LockedByOther(w, rows) == \E i \in rows : lockedBy[i] \notin {Free, w}

Lock(w, rows) == [i \in LicenceIds |-> IF i \in rows THEN w ELSE lockedBy[i]]
Release(w) == [i \in LicenceIds |-> IF lockedBy[i] = w THEN Free ELSE lockedBy[i]]

NoTxn == [run_number |-> 0, licences |-> {}, built |-> <<>>, references |-> {}]

\* mutant: the invocation ends and what the transaction wrote is kept
Rollback_writes_kept(w, how) ==
    /\ lockedBy' = Release(w)
    /\ txn' = txn
    /\ pc' = [pc EXCEPT ![w] = "idle"]
    /\ result' = [result EXCEPT ![w] = how]

\* the transaction is rolled back and the invocation ends: "error" and
\* "lock_not_available" (the DatabaseError of NOWAIT) are the generic except
\* branch (logged, returns None), "raised" re-raises
Rollback(w, how) ==
    /\ lockedBy' = Release(w)
    /\ txn' = [txn EXCEPT ![w] = NoTxn]
    /\ pc' = [pc EXCEPT ![w] = "idle"]
    /\ result' = [result EXCEPT ![w] = how]

\* the task starts: the slot check, outside the transaction
Start(w) ==
    /\ pc[w] = "idle"
    /\ nextMailId <= MaxMails
    /\ IF ~_is_email_slot_free(mails)
       THEN /\ result' = [result EXCEPT ![w] = "slot_busy"]
            /\ UNCHANGED <<pc, txn>>
       ELSE /\ pc' = [pc EXCEPT ![w] = "exists"]
            /\ result' = [result EXCEPT ![w] = "running"]
            /\ txn' = [txn EXCEPT ![w] = NoTxn]
    /\ UNCHANGED <<payloads, mails, licenceData, nextMailId, lockedBy, outbox>>

\* licences.exists(): SELECT 1 ... LIMIT 1 FOR UPDATE NOWAIT locks the one
\* row the database happens to return
Exists(w) ==
    /\ pc[w] = "exists"
    /\ IF Unprocessed(payloads) = {}
       THEN /\ pc' = [pc EXCEPT ![w] = "idle"]
            /\ result' = [result EXCEPT ![w] = "no_licences"]
            /\ UNCHANGED <<lockedBy, txn>>
       ELSE \E r \in Unprocessed(payloads) :
               IF LockedByOther(w, {r})
               THEN Rollback(w, "lock_not_available")
               ELSE /\ lockedBy' = Lock(w, {r})
                    /\ pc' = [pc EXCEPT ![w] = "last"]
                    /\ UNCHANGED <<txn, result>>
    /\ UNCHANGED <<payloads, mails, licenceData, nextMailId, outbox>>

\* build_licence_data_mail: LicenceData.objects.last() and the run number
Last(w) ==
    /\ pc[w] = "last"
    /\ txn' = [txn EXCEPT ![w].run_number = next_run_number(licenceData)]
    /\ pc' = [pc EXCEPT ![w] = "build"]
    /\ UNCHANGED <<payloads, mails, licenceData, nextMailId, lockedBy, outbox, result>>

\* build_licence_data_mail: the queryset is evaluated (FOR UPDATE NOWAIT, all
\* rows) and cached, the file is built, Mail and LicenceData are created in
\* the transaction; then build_request_mail_message_dto
Build(w) ==
    /\ pc[w] = "build"
    /\ LET rows == Unprocessed(payloads)
       IN  IF LockedByOther(w, rows)
           THEN Rollback(w, "lock_not_available") /\ UNCHANGED nextMailId
           ELSE \/ Rollback(w, "raised") /\ UNCHANGED nextMailId   \* EdifactValidationError
                \/ /\ lockedBy' = Lock(w, rows)
                   /\ txn' = [txn EXCEPT ![w].licences = rows,
                                         ![w].built = <<build_licence_data_mail(
                                                            rows, txn[w].run_number, nextMailId)>>]
                   /\ nextMailId' = nextMailId + 1
                   /\ pc' = [pc EXCEPT ![w] = "references"]
                   /\ UNCHANGED result
    /\ UNCHANGED <<payloads, mails, licenceData, outbox>>

\* licences.values_list("reference"): the queryset runs again, FOR UPDATE NOWAIT
References(w) ==
    /\ pc[w] = "references"
    /\ LET rows == Unprocessed(payloads)
       IN  IF LockedByOther(w, rows)
           THEN Rollback(w, "lock_not_available")
           ELSE /\ lockedBy' = Lock(w, rows)
                /\ txn' = [txn EXCEPT ![w].references = rows]
                /\ pc' = [pc EXCEPT ![w] = "send"]
                /\ UNCHANGED result
    /\ UNCHANGED <<payloads, mails, licenceData, nextMailId, outbox>>

\* the DTO of the Mail built in this transaction
mail_dto(w) ==
    build_request_mail_message_dto(txn[w].built[1].mail,
                                   txn[w].built[1].licence_data.hmrc_run_number)

\* send(server, mail_dto): the email leaves, or the send raises
Send(w) ==
    /\ pc[w] = "send"
    /\ \/ Rollback(w, "error") /\ UNCHANGED outbox
       \/ /\ outbox' = Append(outbox, [dto |-> mail_dto(w),
                                       licences |-> txn[w].licences])
          /\ pc' = [pc EXCEPT ![w] = "update_mail"]
          /\ UNCHANGED <<lockedBy, txn, result>>
    /\ UNCHANGED <<payloads, mails, licenceData, nextMailId>>

\* routing_controller.update_mail: the sent file is recorded on the Mail and
\* the Mail awaits its reply; or it raises
update_mail(mail, dto) ==
    [mail EXCEPT !.status = REPLY_PENDING,
                 !.sent_filename = dto.attachment[1],
                 !.sent_data = dto.attachment[2]]

UpdateMail(w) ==
    /\ pc[w] = "update_mail"
    /\ \/ Rollback(w, "error")
       \/ /\ txn' = [txn EXCEPT ![w].built[1].mail = update_mail(@, mail_dto(w))]
          /\ pc' = [pc EXCEPT ![w] = "mark"]
          /\ UNCHANGED <<lockedBy, result>>
    /\ UNCHANGED <<payloads, mails, licenceData, nextMailId, outbox>>

\* licences.update(is_processed=True): UPDATE ... WHERE is_processed=False AND
\* skip=False over the rows committed now, waiting for rows locked elsewhere;
\* then the atomic block commits
MarkProcessed(rows) ==
    [i \in LicenceIds |->
        IF i \in Unprocessed(rows) THEN [rows[i] EXCEPT !.is_processed = TRUE] ELSE rows[i]]

Mark(w) ==
    /\ pc[w] = "mark"
    /\ ~LockedByOther(w, Unprocessed(payloads))
    /\ \/ Rollback(w, "error") /\ UNCHANGED <<payloads, mails, licenceData>>
       \/ /\ payloads' = MarkProcessed(payloads)
          /\ mails' = Append(mails, txn[w].built[1].mail)
          /\ licenceData' = Append(licenceData, txn[w].built[1].licence_data)
          /\ lockedBy' = Release(w)
          /\ txn' = [txn EXCEPT ![w] = NoTxn]
          /\ pc' = [pc EXCEPT ![w] = "idle"]
          /\ result' = [result EXCEPT ![w] = "ok"]
    /\ UNCHANGED <<nextMailId, outbox>>

\* a licence change arrives from the licensing service
ArriveLicence(i, skip) ==
    /\ ~payloads[i].present
    /\ payloads' = [payloads EXCEPT ![i] = [present |-> TRUE, is_processed |-> FALSE,
                                            skip |-> skip]]
    /\ UNCHANGED <<mails, licenceData, nextMailId, lockedBy, outbox, pc, txn, result>>

\* the routing controller records the reply to an outstanding batch
ReplyReceived(k) ==
    /\ mails[k].status = REPLY_PENDING
    /\ mails' = [mails EXCEPT ![k].status = REPLY_RECEIVED]
    /\ UNCHANGED <<payloads, licenceData, nextMailId, lockedBy, outbox, pc, txn, result>>

\* the routing controller has forwarded the reply: the slot is freed
ReplySent(k) ==
    /\ mails[k].status = REPLY_RECEIVED
    /\ mails' = [mails EXCEPT ![k].status = REPLY_SENT]
    /\ UNCHANGED <<payloads, licenceData, nextMailId, lockedBy, outbox, pc, txn, result>>

InitLicence ==
    /\ payloads = [i \in LicenceIds |-> [present |-> FALSE, is_processed |-> FALSE,
                                         skip |-> FALSE]]
    /\ mails = <<>>
    /\ licenceData = <<>>
    /\ nextMailId = 1
    /\ lockedBy = [i \in LicenceIds |-> Free]
    /\ outbox = <<>>
    /\ pc = [w \in Workers |-> "idle"]
    /\ txn = [w \in Workers |-> NoTxn]
    /\ result = [w \in Workers |-> "none"]

\* what the licence-update task leaves alone
LicenceFrame == UNCHANGED <<pollVars, usageVars, resendVars, stampVars, emailVars>>

NextLicence ==
    \/ \E w \in Workers : Start(w) /\ LicenceFrame
    \/ \E w \in Workers : Exists(w) /\ LicenceFrame
    \/ \E w \in Workers : Last(w) /\ LicenceFrame
    \/ \E w \in Workers : Build(w) /\ LicenceFrame
    \/ \E w \in Workers : References(w) /\ LicenceFrame
    \/ \E w \in Workers : Send(w) /\ LicenceFrame
    \/ \E w \in Workers : UpdateMail(w) /\ LicenceFrame
    \/ \E w \in Workers : Mark(w) /\ LicenceFrame
    \/ \E i \in LicenceIds, skip \in BOOLEAN : ArriveLicence(i, skip) /\ LicenceFrame
    \/ \E k \in 1..Len(mails) : ReplyReceived(k) /\ LicenceFrame
    \/ \E k \in 1..Len(mails) : ReplySent(k) /\ LicenceFrame

-----------------------------------------------------------------------------
(* mail/libraries/mailbox_service.py: the inbound deduplication ledger     *)

MaxMessages == 2     \* messages in the maildrop at once
MaxDeliveries == 2   \* messages the transport delivers in all

\* settings.SPIRE_FROM_ADDRESS
SPIRE_FROM_ADDRESS == <<"s","@","x">>

UNREAD == "UNREAD"
READ == "READ"
UNPROCESSABLE == "UNPROCESSABLE"

MESSAGE_ID == <<"M","e","s","s","a","g","e","-","I","D",":">>

\* the Message-ID a header line gives (None when it gives none); hdr is the
\* list of header lines and index the line's position
header_message_id(hdr, index) ==
    LET hdr_item_fields == Split(hdr[index], " ")
    IN  IF Len(hdr_item_fields) = 2 /\ hdr_item_fields[1] = MESSAGE_ID
        THEN Split(Remove(Remove(hdr_item_fields[2], "<"), ">"), "@")[1]
        ELSE IF Len(hdr_item_fields) = 1 /\ hdr_item_fields[1] = MESSAGE_ID
        THEN IF index + 1 > Len(hdr) THEN Raise("IndexError")
             ELSE Split(Strip(Remove(Remove(hdr[index + 1], "<"), ">"), " "), "@")[1]
        ELSE None

\* the loop over the header lines: the last Message-ID line wins, an
\* IndexError ends the loop
RECURSIVE scan_header(_, _, _)
scan_header(hdr, index, message_id) ==
    IF index > Len(hdr) THEN message_id
    ELSE LET found == header_message_id(hdr, index)
         IN  IF found = Raise("IndexError") THEN found
             ELSE scan_header(hdr, index + 1, IF found = None THEN message_id ELSE found)

\* mutant: the trusted-sender test is dropped
get_message_id_any_sender(hdr) == scan_header(hdr, 1, None)

\* get_message_id: None unless a header line equals the trusted address
get_message_id(hdr) ==
    IF \A k \in 1..Len(hdr) : hdr[k] # SPIRE_FROM_ADDRESS
    THEN None
    ELSE scan_header(hdr, 1, None)

\* mutant: only the rows in Read count as seen
get_read_messages_read_only(rows) ==
    {r.message_id : r \in {x \in rows : x.status = READ}}

\* get_read_messages: the ids with a row in Read or Unprocessable
get_read_messages(rows) ==
    {r.message_id : r \in {x \in rows : x.status \in {READ, UNPROCESSABLE}}}

\* MailReadStatus.objects.get_or_create(message_id, message_num, mailbox)
get_or_create(rows, message_id, message_num) ==
    IF \E r \in rows : r.message_id = message_id /\ r.message_num = message_num
    THEN rows
    ELSE rows \cup {[message_id |-> message_id, message_num |-> message_num,
                     status |-> UNREAD]}

\* read_status.status = status; read_status.save()
mark_status(rows, row, status) ==
    {IF r.message_id = row.message_id /\ r.message_num = row.message_num
     THEN [r EXCEPT !.status = status] ELSE r : r \in rows}

\* the headers of the messages that may be delivered
FromTrusted == SPIRE_FROM_ADDRESS
FromOther == <<"F","r","o","m",":"," ","o","@","x">>
MessageIdInline == MESSAGE_ID \o <<" ","<","a","@","d",">">>
MessageIdFolded == <<MESSAGE_ID, <<" ","<","b","@","d",">">> >>

Headers == {
    <<FromTrusted, MessageIdInline>>,
    <<FromTrusted>> \o MessageIdFolded,
    <<FromOther, MessageIdInline>> }

\* a message: its header lines and whether its body parses into the DTO
Messages ==
    [header : Headers, body : {"ok"}]
        \cup {[header |-> <<FromTrusted, MessageIdInline>>, body |-> "malformed"]}

MessageIds == {get_message_id(h) : h \in Headers} \ {None}

Pollers == {"p1", "p2"}

NoRow == [message_id |-> None, message_num |-> 0, status |-> UNREAD]

\* a poller with no generator: no frame, no closure; marks are the items
\* whose mark function the caller holds, called those whose mark function it
\* has invoked
\* m is the message the last RETR returned, mail_message the one last yielded
\* outcome is how the loop left the item read_status was last assigned for
NoMessage == [header |-> <<>>, body |-> "none"]

NoPoll == [phase |-> "idle", items |-> <<>>, read_messages |-> {}, pos |-> 1,
           read_status |-> NoRow, m |-> NoMessage, mail_message |-> NoMessage,
           marks |-> {}, called |-> {}, outcome |-> "none", final_at_start |-> {}]

Finalized(status) == status \in {READ, UNPROCESSABLE}

\* history, kept in the frame as final_at_start: the ids whose row was
\* final when the poll began
FinalIds(rows) == {r.message_id : r \in {x \in rows : Finalized(x.status)}}

RowStatus(rows, row) ==
    (CHOOSE r \in rows : r.message_id = row.message_id /\ r.message_num = row.message_num).status

\* the generator starts: LIST, TOP of every message, the seen ids; an
\* IndexError of get_message_id ends the poll before any item
StartPoll(p) ==
    /\ poll[p].phase = "idle"
    /\ LET items == [k \in 1..Len(mailbox) |-> <<get_message_id(mailbox[k].header), k>>]
       IN  IF \E k \in 1..Len(items) : items[k][1] = Raise("IndexError")
           THEN poll' = [poll EXCEPT ![p] = NoPoll]
           ELSE poll' = [poll EXCEPT ![p] =
                    [phase |-> "running", items |-> items,
                     read_messages |-> get_read_messages(ledger), pos |-> 1,
                     read_status |-> NoRow, m |-> NoMessage,
                     mail_message |-> NoMessage, marks |-> {}, called |-> {},
                     outcome |-> "none", final_at_start |-> FinalIds(ledger)]]
    /\ UNCHANGED <<mailbox, delivered, ledger, finalized>>

Item(p) == poll[p].items[poll[p].pos]
Wanted(p) == Item(p)[1] # None /\ Item(p)[1] \notin poll[p].read_messages
AtItem(p) == poll[p].phase = "running" /\ poll[p].pos <= Len(poll[p].items)
ItemRow(p) == [message_id |-> Item(p)[1], message_num |-> Item(p)[2], status |-> UNREAD]

\* the loop passes an item with no id or with an id seen before
SkipItem(p) ==
    /\ AtItem(p)
    /\ ~Wanted(p)
    /\ poll' = [poll EXCEPT ![p].pos = @ + 1]
    /\ UNCHANGED <<mailbox, delivered, ledger, finalized>>

\* the row is got or created, RETR fails (error_proto): continue
RetrFails(p) ==
    /\ AtItem(p)
    /\ Wanted(p)
    /\ ledger' = get_or_create(ledger, Item(p)[1], Item(p)[2])
    /\ poll' = [poll EXCEPT ![p].pos = @ + 1, ![p].read_status = ItemRow(p),
                            ![p].outcome = "retr_failed"]
    /\ UNCHANGED <<mailbox, delivered, finalized>>

\* RETR succeeds, to_mail_message_dto raises ValueError: Unprocessable, continue
ParseFails(p) ==
    /\ AtItem(p)
    /\ Wanted(p)
    /\ mailbox[Item(p)[2]].body = "malformed"
    /\ LET rows == get_or_create(ledger, Item(p)[1], Item(p)[2])
       IN  /\ ledger' = mark_status(rows, ItemRow(p), UNPROCESSABLE)
           /\ finalized' = IF Finalized(RowStatus(rows, ItemRow(p))) THEN finalized
                           ELSE [finalized EXCEPT ![Item(p)[1]] = @ + 1]
    /\ poll' = [poll EXCEPT ![p].pos = @ + 1, ![p].read_status = ItemRow(p),
                            ![p].m = mailbox[Item(p)[2]],
                            ![p].outcome = "unparsable"]
    /\ UNCHANGED <<mailbox, delivered>>

\* RETR and the parse succeed: the item is yielded with its mark function
Yield(p) ==
    /\ AtItem(p)
    /\ Wanted(p)
    /\ mailbox[Item(p)[2]].body = "ok"
    /\ ledger' = get_or_create(ledger, Item(p)[1], Item(p)[2])
    /\ poll' = [poll EXCEPT ![p].phase = "yielded", ![p].read_status = ItemRow(p),
                            ![p].m = mailbox[Item(p)[2]],
                            ![p].mail_message = mailbox[Item(p)[2]],
                            ![p].marks = @ \cup {poll[p].pos},
                            ![p].outcome = "yielded"]
    /\ UNCHANGED <<mailbox, delivered, finalized>>

\* the caller calls a mark function it was handed (that of item k): every
\* mark function of the generator reads the frame's one read_status variable
CallMark(p, k, status) ==
    /\ k \in poll[p].marks
    /\ LET row == poll[p].read_status
       IN  /\ ledger' = mark_status(ledger, row, status)
           /\ finalized' = IF Finalized(RowStatus(ledger, row)) THEN finalized
                           ELSE [finalized EXCEPT ![row.message_id] = @ + 1]
    /\ poll' = [poll EXCEPT ![p].called = @ \cup {k}]
    /\ UNCHANGED <<mailbox, delivered>>

\* the caller asks for the next item
Resume(p) ==
    /\ poll[p].phase = "yielded"
    /\ poll' = [poll EXCEPT ![p].phase = "running", ![p].pos = @ + 1]
    /\ UNCHANGED <<mailbox, delivered, ledger, finalized>>

\* the loop is over, or the caller stops iterating: the generator ends, the
\* mark functions handed out stay callable (items, called and outcome are
\* kept with them, to tell which row each of them was handed out for)
EndPoll(p) ==
    /\ \/ poll[p].phase = "running" /\ poll[p].pos > Len(poll[p].items)
       \/ poll[p].phase = "yielded"
    /\ poll' = [poll EXCEPT ![p] = [NoPoll EXCEPT !.read_status = poll[p].read_status,
                                                  !.marks = poll[p].marks,
                                                  !.items = poll[p].items,
                                                  !.called = poll[p].called,
                                                  !.outcome = poll[p].outcome]]
    /\ UNCHANGED <<mailbox, delivered, ledger, finalized>>

NoSession == \A p \in Pollers : poll[p].phase = "idle"

\* the mail transport delivers a message (it may deliver one twice)
Deliver(m) ==
    /\ NoSession
    /\ Len(mailbox) < MaxMessages
    /\ delivered < MaxDeliveries
    /\ mailbox' = Append(mailbox, m)
    /\ delivered' = delivered + 1
    /\ UNCHANGED <<ledger, poll, finalized>>

\* the oldest message is deleted from the maildrop: the others are renumbered
Expunge ==
    /\ NoSession
    /\ mailbox # <<>>
    /\ mailbox' = Tail(mailbox)
    /\ UNCHANGED <<delivered, ledger, poll, finalized>>

InitPoll ==
    /\ mailbox = <<>>
    /\ delivered = 0
    /\ ledger = {}
    /\ poll = [p \in Pollers |-> NoPoll]
    /\ finalized = [id \in MessageIds |-> 0]

\* what the poll leaves alone
PollFrame == UNCHANGED <<licVars, usageVars, resendVars, stampVars, emailVars>>

\* polls of one mailbox, one at a time
SerialPollers == {"p1"}

NextPoll ==
    \/ \E p \in SerialPollers : StartPoll(p) /\ PollFrame
    \/ \E p \in SerialPollers : SkipItem(p) /\ PollFrame
    \/ \E p \in SerialPollers : RetrFails(p) /\ PollFrame
    \/ \E p \in SerialPollers : ParseFails(p) /\ PollFrame
    \/ \E p \in SerialPollers : Yield(p) /\ PollFrame
    \/ \E p \in SerialPollers, k \in 1..MaxMessages, status \in {READ, UNPROCESSABLE} :
           CallMark(p, k, status) /\ PollFrame
    \/ \E p \in SerialPollers : Resume(p) /\ PollFrame
    \/ \E p \in SerialPollers : EndPoll(p) /\ PollFrame
    \/ \E m \in Messages : Deliver(m) /\ PollFrame
    \/ Expunge /\ PollFrame

\* two polls of one mailbox that may overlap: the maildrop does not change
\* while a poll is under way
NextPollOverlap ==
    \/ \E p \in Pollers : StartPoll(p) /\ PollFrame
    \/ \E p \in Pollers : SkipItem(p) /\ PollFrame
    \/ \E p \in Pollers : RetrFails(p) /\ PollFrame
    \/ \E p \in Pollers : ParseFails(p) /\ PollFrame
    \/ \E p \in Pollers : Yield(p) /\ PollFrame
    \/ \E p \in Pollers, k \in 1..MaxMessages, status \in {READ, UNPROCESSABLE} :
           CallMark(p, k, status) /\ PollFrame
    \/ \E p \in Pollers : Resume(p) /\ PollFrame
    \/ \E p \in Pollers : EndPoll(p) /\ PollFrame
    \/ \E m \in Messages : Deliver(m) /\ PollFrame
    \/ Expunge /\ PollFrame

-----------------------------------------------------------------------------
(* mail/tasks.py: send_licence_usage_figures_to_lite_api and its retries   *)

MAX_ATTEMPTS == 3    \* settings.MAX_ATTEMPTS, whatever it is set to
TASK_BACK_OFF == 3600

HTTP_207_MULTI_STATUS == 207
HTTP_208_ALREADY_REPORTED == 208

UsageIds == {"u1", "u2"}

\* UsageData.has_spire_data of the two usage batches
has_spire_data(b) == b = "u2"

\* LicenceIdMapping: lite_id -> reference; "i2" has no mapping
LicenceIdMapping == [id \in {"i1"} |-> reference(1)]

\* the bodies the API may send with a 207: licences accepted and rejected,
\* each entry a lite id ("" is an entry without id)
Responses == {
    [accepted |-> <<"i1">>, rejected |-> <<>>],
    [accepted |-> <<"">>, rejected |-> <<"i1">>],
    [accepted |-> <<"i2">>, rejected |-> <<>>] }

\* the references of the entries that carry an id
RECURSIVE references_of(_)
references_of(entries) ==
    IF entries = <<>> THEN <<>>
    ELSE IF Head(entries) = "" THEN references_of(Tail(entries))
    ELSE <<LicenceIdMapping[Head(entries)]>> \o references_of(Tail(entries))

\* LicenceIdMapping.objects.get raises DoesNotExist for an unmapped id
Parses(response) ==
    \A k \in 1..Len(response.accepted \o response.rejected) :
        (response.accepted \o response.rejected)[k] \in DOMAIN LicenceIdMapping \cup {""}

parse_response(response) ==
    [response |-> response,
     accepted_licences |-> references_of(response.accepted),
     rejected_licences |-> references_of(response.rejected)]

NoResponse == [accepted |-> <<>>, rejected |-> <<"None">>]

\* a UsageData row as created by the routing controller, with its Mail's status
NewUsageData ==
    [exists |-> TRUE, mail_status |-> PENDING, lite_payload |-> FALSE,
     lite_response |-> NoResponse, lite_accepted_licences |-> <<>>,
     lite_rejected_licences |-> <<>>]

NoUsageData == [NewUsageData EXCEPT !.exists = FALSE]

\* build_lite_payload: the payload is stored on the row
build_lite_payload(row) == [row EXCEPT !.lite_payload = TRUE]

\* mutant: the Mail is set to reply received whatever data the batch has
save_response_any_source(b, row, parsed) ==
    [row EXCEPT !.lite_accepted_licences = parsed.accepted_licences,
                !.lite_rejected_licences = parsed.rejected_licences,
                !.lite_response = parsed.response,
                !.mail_status = REPLY_RECEIVED]

save_response(b, row, parsed) ==
    [row EXCEPT !.lite_accepted_licences = parsed.accepted_licences,
                !.lite_rejected_licences = parsed.rejected_licences,
                !.lite_response = parsed.response,
                !.mail_status = IF ~has_spire_data(b) THEN REPLY_RECEIVED ELSE @]

\* a Task row: attempts made, seconds until it is due, and where the task
\* runner is with it (pending; running: locked by the runner; raised or
\* returned: the function has ended and the runner has not yet recorded it)
NewTask(schedule) == [attempts |-> 0, run_at |-> schedule, state |-> "pending"]

\* Task.objects.filter(queue=USAGE_FIGURES_QUEUE, task_params=...).exists()
TaskExists(b) == tasks[b] # <<>>

\* the position of the row the runner is executing
Running(b) == CHOOSE k \in 1..Len(tasks[b]) : tasks[b][k].state = "running"
IsRunning(b) == \E k \in 1..Len(tasks[b]) : tasks[b][k].state = "running"

\* mutant: scheduled without looking for an existing task
schedule_unchecked(b) ==
    /\ tasks' = [tasks EXCEPT ![b] = Append(@, NewTask(0))]
    /\ handoff' = [handoff EXCEPT ![b] = "scheduled"]
    /\ UNCHANGED <<usageData, upstream>>

schedule_licence_usage_figures_for_lite_api(b) ==
    /\ IF TaskExists(b)
       THEN UNCHANGED <<tasks, handoff>>
       ELSE /\ tasks' = [tasks EXCEPT ![b] = Append(@, NewTask(0))]
            /\ handoff' = [handoff EXCEPT ![b] = "scheduled"]
    /\ UNCHANGED <<usageData, upstream>>

\* the task runner takes a due task of the queue, one task at a time
RunTask(b) ==
    /\ \A c \in UsageIds : \A k \in 1..Len(tasks[c]) : tasks[c][k].state = "pending"
    /\ \E k \in 1..Len(tasks[b]) :
          /\ tasks[b][k].run_at = 0
          /\ tasks' = [tasks EXCEPT ![b][k].state = "running"]
    /\ UNCHANGED <<usageData, upstream, handoff>>

\* mutant: the new task is due at once
schedule_max_tried_task_as_new_task_at_once(rows) == Append(rows, NewTask(0))

\* schedule_max_tried_task_as_new_task: a new Task, due TASK_BACK_OFF seconds on
schedule_max_tried_task_as_new_task(rows) == Append(rows, NewTask(TASK_BACK_OFF))

\* mutant: the new task is scheduled only after MAX_ATTEMPTS is exceeded
_handle_exception_late(rows, k) ==
    IF Len(rows) = 1 /\ rows[k].attempts + 1 > MAX_ATTEMPTS
    THEN schedule_max_tried_task_as_new_task([rows EXCEPT ![k].state = "raised"])
    ELSE [rows EXCEPT ![k].state = "raised"]

\* mutant: the failure is logged and the function returns
_handle_exception_swallowed(rows, k) == [rows EXCEPT ![k].state = "returned"]

\* _handle_exception on the rows of one usage id, k the running row:
\* Task.objects.get finds the one row (with two it raises before it
\* schedules); at MAX_ATTEMPTS a new task is scheduled; then it raises
_handle_exception(rows, k) ==
    IF Len(rows) = 1 /\ rows[k].attempts + 1 >= MAX_ATTEMPTS
    THEN schedule_max_tried_task_as_new_task([rows EXCEPT ![k].state = "raised"])
    ELSE [rows EXCEPT ![k].state = "raised"]

\* UsageData.objects.get raises DoesNotExist
NotFound(b) ==
    /\ IsRunning(b)
    /\ ~usageData[b].exists
    /\ tasks' = [tasks EXCEPT ![b] = _handle_exception(@, Running(b))]
    /\ UNCHANGED <<usageData, upstream, handoff>>

\* build_lite_payload raises: nothing is stored
PayloadFails(b) ==
    /\ IsRunning(b)
    /\ usageData[b].exists
    /\ upstream # "sound"
    /\ tasks' = [tasks EXCEPT ![b] = _handle_exception(@, Running(b))]
    /\ UNCHANGED <<usageData, upstream, handoff>>

\* the payload is stored, then put raises or the answer has another status
\* code than 207 and 208
PutFails(b) ==
    /\ IsRunning(b)
    /\ usageData[b].exists
    /\ upstream = "failing"
    /\ usageData' = [usageData EXCEPT ![b] = build_lite_payload(@)]
    /\ tasks' = [tasks EXCEPT ![b] = _handle_exception(@, Running(b))]
    /\ UNCHANGED <<upstream, handoff>>

\* the answer is a 207 whose body parse_response cannot parse
ParseResponseFails(b, response) ==
    /\ IsRunning(b)
    /\ usageData[b].exists
    /\ upstream # "sound"
    /\ ~Parses(response)
    /\ usageData' = [usageData EXCEPT ![b] = build_lite_payload(@)]
    /\ tasks' = [tasks EXCEPT ![b] = _handle_exception(@, Running(b))]
    /\ UNCHANGED <<upstream, handoff>>

\* the answer is a 207 (parsed and saved) or a 208: the function returns
HandOff(b, status_code, response) ==
    /\ IsRunning(b)
    /\ usageData[b].exists
    /\ status_code = HTTP_207_MULTI_STATUS => Parses(response)
    /\ usageData' = [usageData EXCEPT ![b] =
          IF status_code = HTTP_207_MULTI_STATUS
          THEN save_response(b, build_lite_payload(@), parse_response(response))
          ELSE build_lite_payload(@)]
    /\ tasks' = [tasks EXCEPT ![b][Running(b)].state = "returned"]
    /\ handoff' = [handoff EXCEPT ![b] = "handed_off"]
    /\ UNCHANGED upstream

\* the runner's retry delay after the given number of attempts
retry_delay(attempts) == attempts * attempts * attempts * attempts + 5

Without(rows, k) == SubSeq(rows, 1, k - 1) \o SubSeq(rows, k + 1, Len(rows))

\* the task runner records how the function ended: a task that returned is
\* done; a task that raised has one more attempt and is retried later, or is
\* given up at MAX_ATTEMPTS
RunnerRecords(b) ==
    /\ \E k \in 1..Len(tasks[b]) :
          \/ /\ tasks[b][k].state = "returned"
             /\ tasks' = [tasks EXCEPT ![b] = Without(@, k)]
          \/ /\ tasks[b][k].state = "raised"
             /\ tasks' = [tasks EXCEPT ![b] =
                   IF tasks[b][k].attempts + 1 >= MAX_ATTEMPTS
                   THEN Without(@, k)
                   ELSE [@ EXCEPT ![k] = [attempts |-> tasks[b][k].attempts + 1,
                                          run_at |-> retry_delay(tasks[b][k].attempts + 1),
                                          state |-> "pending"]]]
    /\ UNCHANGED <<usageData, upstream, handoff>>

\* time passes between two runs of the task runner: every task becomes due
TimePasses ==
    /\ \A b \in UsageIds : \A k \in 1..Len(tasks[b]) : tasks[b][k].state = "pending"
    /\ \E b \in UsageIds : \E k \in 1..Len(tasks[b]) : tasks[b][k].run_at # 0
    /\ tasks' = [b \in UsageIds |-> [k \in 1..Len(tasks[b]) |-> [tasks[b][k] EXCEPT !.run_at = 0]]]
    /\ UNCHANGED <<usageData, upstream, handoff>>

\* the routing controller stores an inbound usage batch
CreateUsageData(b) ==
    /\ ~usageData[b].exists
    /\ usageData' = [usageData EXCEPT ![b] = NewUsageData]
    /\ UNCHANGED <<tasks, upstream, handoff>>

\* the API recovers: first it answers every attempt with 207 or 208, then
\* also every payload builds and every body parses
Recover ==
    /\ upstream # "sound"
    /\ upstream' = IF upstream = "failing" THEN "answers" ELSE "sound"
    /\ UNCHANGED <<tasks, usageData, handoff>>

InitUsage ==
    /\ tasks = [b \in UsageIds |-> <<>>]
    /\ usageData = [b \in UsageIds |-> NoUsageData]
    /\ upstream = "failing"
    /\ handoff = [b \in UsageIds |-> "unscheduled"]

\* what the usage hand-off leaves alone
UsageFrame == UNCHANGED <<licVars, pollVars, resendVars, stampVars, emailVars>>

\* one run of the task function: whichever way it ends
Attempt(b) ==
    \/ NotFound(b)
    \/ PayloadFails(b)
    \/ PutFails(b)
    \/ \E response \in Responses : ParseResponseFails(b, response)
    \/ \E status_code \in {HTTP_207_MULTI_STATUS, HTTP_208_ALREADY_REPORTED},
          response \in Responses : HandOff(b, status_code, response)

NextUsage ==
    \/ \E b \in UsageIds : schedule_licence_usage_figures_for_lite_api(b) /\ UsageFrame
    \/ \E b \in UsageIds : RunTask(b) /\ UsageFrame
    \/ \E b \in UsageIds : NotFound(b) /\ UsageFrame
    \/ \E b \in UsageIds : PayloadFails(b) /\ UsageFrame
    \/ \E b \in UsageIds : PutFails(b) /\ UsageFrame
    \/ \E b \in UsageIds, response \in Responses : ParseResponseFails(b, response) /\ UsageFrame
    \/ \E b \in UsageIds, status_code \in {HTTP_207_MULTI_STATUS, HTTP_208_ALREADY_REPORTED},
          response \in Responses : HandOff(b, status_code, response) /\ UsageFrame
    \/ \E b \in UsageIds : RunnerRecords(b) /\ UsageFrame
    \/ TimePasses /\ UsageFrame
    \/ \E b \in UsageIds : CreateUsageData(b) /\ UsageFrame
    \/ Recover /\ UsageFrame

-----------------------------------------------------------------------------
(* Resend requests: _build_request_mail_message_dto_internal on a Mail row *)

MaxRun == 2          \* run numbers of the rows a resend is requested for
MaxResends == 2      \* resend requests for the one row

\* a usage-data file: header, one record per licence reference, trailer
UsageFile(refs, run_number) ==
    LET header == <<"1","\\","f","i","l","e","H","e","a","d","e","r","\\","C","H","I","E","F",
                    "\\","S","P","I","R","E","\\","u","s","a","g","e","D","a","t","a","\\">>
                  \o Now \o <<"\\">> \o Str(run_number)
        body == [k \in 1..Len(refs) |->
                    Str(k + 1) \o <<"\\","u","s","a","g","e","\\">> \o refs[k]]
        trailer == Str(Len(refs) + 2) \o <<"\\","f","i","l","e","T","r","a","i","l","e","r">>
    IN  Join(<<header>> \o body \o <<trailer>>, "\n")

UsageFilename(run_number) ==
    <<"C","H","I","E","F","_","L","I","V","E","_","S","P","I","R","E","_",
      "u","s","a","g","e","D","a","t","a","_">> \o Str(run_number) \o <<"_">> \o Now

ReplyFilename(run_number) ==
    <<"C","H","I","E","F","_","L","I","V","E","_","S","P","I","R","E","_",
      "l","i","c","e","n","c","e","R","e","p","l","y","_">> \o Str(run_number) \o <<"_">> \o Now

ReplyFile(run_number) ==
    <<"1","\\","f","i","l","e","H","e","a","d","e","r","\\","C","H","I","E","F",
      "\\","S","P","I","R","E","\\","l","i","c","e","n","c","e","R","e","p","l","y","\\">>
    \o Now \o <<"\\">> \o Str(run_number) \o <<"\n","2","\\","f","i","l","e","T","r","a","i","l","e","r">>

\* a licence-data Mail built with run number built_run from the licences,
\* and sent (update_mail) with run number sent_run, or not sent yet
LicenceMail(extract_type, licences, built_run, sent_run, is_sent, replied) ==
    LET built == build_licence_data_mail(licences, built_run, 1).mail
        dto == build_request_mail_message_dto(built, sent_run)
        sent == IF is_sent THEN update_mail(built, dto) ELSE built
    IN  [extract_type |-> extract_type,
         status |-> sent.status,
         edi_filename |-> sent.edi_filename,
         edi_data |-> sent.edi_data,
         sent_filename |-> sent.sent_filename,
         sent_data |-> sent.sent_data,
         sent_response_filename |-> IF replied THEN ReplyFilename(sent_run) ELSE None,
         sent_response_data |-> IF replied THEN ReplyFile(sent_run) ELSE None]

\* a usage-data Mail as received, with or without records of the SPIRE party
UsageMail(extract_type, refs, run_number) ==
    [extract_type |-> extract_type,
     status |-> PENDING,
     edi_filename |-> UsageFilename(run_number),
     edi_data |-> UsageFile(refs, run_number),
     sent_filename |-> None,
     sent_data |-> None,
     sent_response_filename |-> None,
     sent_response_data |-> None]

ResendMails ==
    {LicenceMail(t, l, r[1], r[2], sent, replied) :
        t \in {LICENCE_DATA, LICENCE_REPLY}, l \in {{1}, {1, 2}},
        r \in (1..MaxRun) \X (1..MaxRun), sent \in BOOLEAN, replied \in BOOLEAN}
    \cup {UsageMail(t, refs, r) :
        t \in {USAGE_DATA, USAGE_REPLY},
        refs \in {<< <<"S","P","1">>, reference(1) >>, << reference(1) >>},
        r \in 1..MaxRun}

NoResend ==
    /\ resend_mail = UsageMail(USAGE_REPLY, <<>>, 1)
    /\ resend_run = 0
    /\ resend_dtos = <<>>

ResendInputs ==
    /\ resend_mail \in ResendMails
    /\ resend_run \in 1..MaxRun
    /\ resend_dtos = <<>>

\* the counterpart asks again for the batch: the resend builder runs
Resend ==
    /\ Len(resend_dtos) < MaxResends
    /\ resend_dtos' = Append(resend_dtos,
                             _build_request_mail_message_dto_internal(resend_mail, resend_run))
    /\ UNCHANGED <<resend_mail, resend_run>>

ResendFrame == UNCHANGED <<licVars, pollVars, usageVars, stampVars, emailVars>>

NextResend == Resend /\ ResendFrame

-----------------------------------------------------------------------------
(* Run-number stamping: build_sent_filename and build_sent_file_data on    *)
(* filenames and file contents of every shape                              *)

MaxFields == 6       \* underscore-delimited fields of a filename
MaxLineFields == 8   \* backslash-delimited fields of a first line

\* the run numbers stamped: one digit and two digits
StampRuns == (1..MaxRun) \cup {MaxRun + 10}

\* filenames of 4 to MaxFields fields, empty fields and numeric fields among them
StampFilenames ==
    {Join(fields, "_") :
        fields \in UNION {[1..n -> {<<>>, <<"a">>, <<"1", "2">>}] : n \in 4..MaxFields}}

\* first lines of 6 to MaxLineFields fields
StampFirstLines ==
    {Join(fields, "\\") :
        fields \in UNION {[1..n -> {<<>>, <<"9">>}] : n \in 6..MaxLineFields}}

\* what follows the first line: nothing, a line end, one line, two lines
StampFollowing ==
    { <<>>, <<"\n">>, <<"\n", "2", "\\", "x">>,
      <<"\n", "2", "\\", "x", "\n", "3", "\\", "\\", "\n">> }

StampFileData == {first \o following : first \in StampFirstLines, following \in StampFollowing}

NoStamp ==
    /\ stamp_in = [kind |-> "none", text |-> <<>>, run_number |-> 0]
    /\ stamp_out = <<>>

StampInputs ==
    /\ stamp_in \in [kind : {"filename"}, text : StampFilenames, run_number : StampRuns]
                    \cup [kind : {"file_data"}, text : StampFileData, run_number : StampRuns]
    /\ stamp_out = <<>>

\* what the next stamping is applied to: the input, or the last result
StampArgument == IF stamp_out = <<>> THEN stamp_in.text ELSE stamp_out[Len(stamp_out)]

\* build_sent_filename on the filename, then on its own result
StampFilename ==
    /\ stamp_in.kind = "filename"
    /\ Len(stamp_out) < 2
    /\ ~IsRaise(StampArgument)
    /\ stamp_out' = Append(stamp_out, build_sent_filename(StampArgument, stamp_in.run_number))
    /\ UNCHANGED stamp_in

\* build_sent_file_data on the content, then on its own result
StampContent ==
    /\ stamp_in.kind = "file_data"
    /\ Len(stamp_out) < 2
    /\ ~IsRaise(StampArgument)
    /\ stamp_out' = Append(stamp_out, build_sent_file_data(StampArgument, stamp_in.run_number))
    /\ UNCHANGED stamp_in

StampFrame == UNCHANGED <<licVars, pollVars, usageVars, resendVars, emailVars>>

NextStamp ==
    \/ StampFilename /\ StampFrame
    \/ StampContent /\ StampFrame

-----------------------------------------------------------------------------
(* Outbound messages: build_email_message on DTOs of every shape           *)

\* attachment filenames and contents, None among them; a content may hold
\* characters outside ASCII
EmailFilenames == {None, <<"f", "_", "1">>, <<"s", "o", "m", "e", " ", "f">>}

EmailContents ==
    {None, <<>>, <<"1", "\\", "a", "\n", "2", "\\", "b">>,
     <<"3", "0", " ", "U+1D5C4", "/", "U+5317", "U+E000">>}

\* the attachments a DTO may hold: None, or a pair of filename and content
EmailAttachments == {None} \cup (EmailFilenames \X EmailContents)

EmailSubjects == {<<"f", "_", "1">>, <<"S", "o", "m", "e", " ", "s">>}

EmailDtos ==
    {[EmailMessageDto(1, sender, receiver, <<None, None>>)
         EXCEPT !.subject = subject, !.attachment = attachment] :
        sender \in {HMRC_ADDRESS, SPIRE_ADDRESS, EMAIL_USER, INCOMING_EMAIL_USER},
        receiver \in {SPIRE_ADDRESS, OUTGOING_EMAIL_USER},
        subject \in EmailSubjects,
        attachment \in EmailAttachments}
    \cup {NoDto}

NotBuilt == [outcome |-> "none"]

NoEmail ==
    /\ email_dto = NoDto
    /\ email_message = NotBuilt

EmailInputs ==
    /\ email_dto \in EmailDtos
    /\ email_message = NotBuilt

\* one call of build_email_message
BuildEmailMessage ==
    /\ email_message = NotBuilt
    /\ email_message' = build_email_message(email_dto)
    /\ UNCHANGED email_dto

EmailFrame == UNCHANGED <<licVars, pollVars, usageVars, resendVars, stampVars>>

NextEmail == BuildEmailMessage /\ EmailFrame

-----------------------------------------------------------------------------
(* The specifications                                                      *)

Init == InitLicence /\ InitPoll /\ InitUsage /\ NoResend /\ NoStamp /\ NoEmail

\* the program at rest, with a Mail row for which resends are requested
InitResend == InitLicence /\ InitPoll /\ InitUsage /\ ResendInputs /\ NoStamp /\ NoEmail

\* the program at rest, with a filename or a file's content to stamp
InitStamp == InitLicence /\ InitPoll /\ InitUsage /\ NoResend /\ StampInputs /\ NoEmail

\* the program at rest, with a DTO to build a message from
InitEmail == InitLicence /\ InitPoll /\ InitUsage /\ NoResend /\ NoStamp /\ EmailInputs

\* the licence-update task, on up to two task runners
Spec == Init /\ [][NextLicence]_vars

\* the inbound poll of one mailbox, polls one after another
SpecPoll == Init /\ [][NextPoll]_vars

\* the inbound poll of one mailbox by two callers at once
SpecPollOverlap == Init /\ [][NextPollOverlap]_vars

\* resend requests for one Mail row
SpecResend == InitResend /\ [][NextResend]_vars

\* stamping one filename or one file's content
SpecStamp == InitStamp /\ [][NextStamp]_vars

\* building the message of one DTO
SpecEmail == InitEmail /\ [][NextEmail]_vars

\* the usage hand-off and its retries
SpecUsage == Init /\ [][NextUsage]_vars

\* the same under a fair task runner: a task that is due again and again
\* is run (the runner takes the task due longest), a run ends, the runner
\* records it, and time passes
SpecUsageFair ==
    /\ SpecUsage
    /\ \A b \in UsageIds :
          /\ SF_vars(RunTask(b) /\ UsageFrame)
          /\ WF_vars(Attempt(b) /\ UsageFrame)
          /\ WF_vars(RunnerRecords(b) /\ UsageFrame)
    /\ SF_vars(TimePasses /\ UsageFrame)

-----------------------------------------------------------------------------
(* Claims about send_licence_data_to_hmrc, checked under Spec              *)

\* C1: in every reachable state at most one persisted Batch (Mail) has a
\* status other than ReplySent, also when two invocations of
\* send_licence_data_to_hmrc overlap and new pending records arrive.
C1_SingleFlight == Cardinality(_get_pending_mail(mails)) <= 1

\* C2: an invocation of send_licence_data_to_hmrc that starts while a Batch is
\* outside ReplySent changes nothing: no Mail, no LicenceData, no run number,
\* no lock, no email, no record marked; it returns (slot_busy) without raising.
C2_BusySlotNoMutation ==
    [][\A w \in Workers :
          (/\ pc[w] = "idle"
           /\ _get_pending_mail(mails) # {}
           /\ <<pc[w], result[w], txn[w]>>' # <<pc[w], result[w], txn[w]>>)
          => /\ UNCHANGED <<payloads, mails, licenceData, nextMailId, lockedBy, outbox>>
             /\ pc'[w] = "idle"
             /\ txn'[w] = txn[w]
             /\ result'[w] = "slot_busy"]_vars

\* an invocation has ended on the busy slot while a Batch is in flight
C2_Witness ==
    \E w \in Workers : result[w] = "slot_busy" /\ _get_pending_mail(mails) # {}

\* C7: no pending licence record is transmitted in two licence-update emails
\* and no run number is transmitted in two emails.
C7_NoDoubleSend ==
    \A j, k \in 1..Len(outbox) :
        j # k => /\ outbox[j].licences \cap outbox[k].licences = {}
                 /\ outbox[j].dto.run_number # outbox[k].dto.run_number

Contended(w) == \E i \in Unprocessed(payloads) : lockedBy[i] \notin {Free, w}

\* the invocation ends in the logged branch, holding and changing nothing
Quiet(w) ==
    /\ result'[w] = "lock_not_available"
    /\ pc'[w] = "idle"
    /\ \A i \in LicenceIds : lockedBy'[i] # w
    /\ UNCHANGED <<payloads, mails, licenceData, outbox>>

\* C16: an invocation that asks for the lock on the unprocessed licence
\* records while another invocation holds it is never made to wait, and it
\* ends without raising, with nothing of its own committed: no Mail, no
\* LicenceData, no email sent, no record marked processed.
C16_LockContention ==
    /\ [](\A w \in Workers :
             pc[w] \in {"exists", "build", "references"}
             => ENABLED (Exists(w) \/ Build(w) \/ References(w)))
    /\ [][\A w \in Workers :
             (Contended(w) /\ pc'[w] # pc[w])
             => /\ pc[w] \in {"build", "references"} => Quiet(w)
                /\ pc[w] = "exists"
                   => \/ Quiet(w)
                      \/ pc'[w] = "last" /\ UNCHANGED <<payloads, mails, licenceData, outbox>>]_vars

\* one invocation was refused the lock while the other, not yet committed,
\* holds it
C16_Witness ==
    \E w, v \in Workers :
        /\ result[w] = "lock_not_available"
        /\ pc[v] \in {"last", "build", "references", "send", "update_mail", "mark"}
        /\ \E i \in LicenceIds : lockedBy[i] = v
        /\ mails = <<>>

\* the step commits a Batch whose licence references include record i, and
\* the email of that Batch has been sent
CommitsBatchWith(i) ==
    /\ Len(mails') = Len(mails) + 1
    /\ Len(licenceData') = Len(licenceData) + 1
    /\ licenceData'[Len(licenceData')].mail = mails'[Len(mails')].id
    /\ i \in licenceData'[Len(licenceData')].licence_ids
    /\ \E k \in 1..Len(outbox) :
          /\ i \in outbox[k].licences
          /\ outbox[k].dto.run_number = licenceData'[Len(licenceData')].hmrc_run_number

\* the records a Batch is built from are pending: present, not skipped, not
\* processed; and no Batch is built from no record
BuiltFromPending ==
    \A w \in Workers :
        txn'[w].built # txn[w].built /\ txn'[w].built # <<>>
        => /\ txn'[w].built[1].licence_data.licence_ids # {}
           /\ \A i \in txn'[w].built[1].licence_data.licence_ids :
                 payloads[i].present /\ ~payloads[i].skip /\ ~payloads[i].is_processed

\* an invocation that finds no eligible record ends there: no Batch, no email
NothingFromNothing ==
    \A w \in Workers :
        (pc[w] = "exists" /\ pc'[w] # pc[w] /\ Unprocessed(payloads) = {})
        => /\ result'[w] = "no_licences" /\ pc'[w] = "idle"
           /\ UNCHANGED <<payloads, mails, licenceData, outbox, nextMailId>>

\* C25: a pending licence record is marked processed only by the commit of
\* a Batch that was built from it and sent, in the same step as that Batch
\* becomes persistent; a Batch is built from pending records only (not
\* skipped, not processed), and an invocation with no eligible record
\* creates no Batch and sends nothing.
C25_ConsumedByBatch ==
    [][/\ \A i \in LicenceIds :
             (payloads'[i].is_processed /\ ~payloads[i].is_processed) => CommitsBatchWith(i)
       /\ BuiltFromPending
       /\ NothingFromNothing]_vars

\* the same without its first part
C25_BuiltFromPending == [][BuiltFromPending /\ NothingFromNothing]_vars

\* the invocation of w ends in this step
Ends(w) == pc[w] # "idle" /\ pc'[w] = "idle"

\* the run number the next build will be given
RunNumberDue(rows) ==
    IF rows = <<>> THEN 1 ELSE rows[Len(rows)].hmrc_run_number + 1

\* the step persists the whole cycle of w: its Mail, sent and awaiting the
\* reply, its LicenceData, and its records marked processed
CompletesFully(w) ==
    /\ txn[w].built # <<>>
    /\ mails' = Append(mails, txn[w].built[1].mail)
    /\ mails'[Len(mails')].status = REPLY_PENDING
    /\ mails'[Len(mails')].sent_data # None
    /\ licenceData' = Append(licenceData, txn[w].built[1].licence_data)
    /\ \A i \in txn[w].licences : payloads'[i].is_processed
    /\ \E k \in 1..Len(outbox) :
          outbox[k].dto.run_number = txn[w].run_number /\ outbox[k].licences = txn[w].licences

-----------------------------------------------------------------------------
(* Claims about the deduplication ledger, checked under SpecPoll           *)

\* C3: over polls run one after another, each message identifier goes to
\* Read or Unprocessable at most once, and a message whose identifier had a
\* final row when a poll began is not fetched or yielded by that poll.
C3_AtMostOnce ==
    /\ \A id \in MessageIds : finalized[id] <= 1
    /\ \A p \in Pollers :
          poll[p].m # NoMessage => get_message_id(poll[p].m.header) \notin poll[p].final_at_start

Trusted(hdr) == \E k \in 1..Len(hdr) : hdr[k] = SPIRE_FROM_ADDRESS

\* C10: a message with no header line equal to the trusted sender address
\* gets no identifier from get_message_id, is never fetched, never yielded,
\* and no ledger row is created for its listing entry; whatever is yielded is
\* from the trusted sender.
C10_TrustedOnly ==
    [][\A p \in Pollers :
          /\ poll'[p].phase # "idle"
             => \A k \in 1..Len(poll'[p].items) :
                   ~Trusted(mailbox'[k].header) => poll'[p].items[k][1] = None
          /\ poll'[p].m # NoMessage => Trusted(poll'[p].m.header)
          /\ poll'[p].mail_message # NoMessage => Trusted(poll'[p].mail_message.header)
          /\ \A r \in ledger' :
                (\A q \in ledger : <<q.message_id, q.message_num>> # <<r.message_id, r.message_num>>)
                => /\ r.message_id # None
                   /\ Trusted(mailbox[r.message_num].header)]_vars

\* a poll has gone through a listing that holds an untrusted message and
\* has yielded another message of the same listing
C10_Witness ==
    \E p \in Pollers :
        /\ poll[p].phase = "running"
        /\ poll[p].pos > Len(poll[p].items)
        /\ \E k \in 1..Len(mailbox) : ~Trusted(mailbox[k].header)
        /\ poll[p].mail_message # NoMessage

\* the status of the ledger row of item k of poller p's listing
StatusOf(rows, p, k) ==
    (CHOOSE r \in rows : /\ r.message_id = poll[p].items[k][1]
                         /\ r.message_num = poll[p].items[k][2]).status

\* the generator of poller p gets or creates the row of the item it is at
Attempts(p) == AtItem(p) /\ poll'[p].read_status # poll[p].read_status

\* C17: a message whose RETR failed, or that was yielded and whose mark
\* function the caller has not invoked, has a row that is neither Read nor
\* Unprocessable; the RETR failure leaves the loop running on the next item;
\* a listed message with no final row when a poll begins is not passed over
\* by that poll; no step of get_message_iterator sets a row to Read.
C17_LeftForRetry ==
    [][\A p \in SerialPollers :
          /\ (poll'[p].outcome = "retr_failed" /\ poll'[p].read_status # NoRow)
             => ~Finalized(RowStatus(ledger', poll'[p].read_status))
          /\ \A k \in poll'[p].marks \ poll'[p].called :
                ~Finalized((CHOOSE r \in ledger' :
                               /\ r.message_id = poll'[p].items[k][1]
                               /\ r.message_num = poll'[p].items[k][2]).status)
          /\ (Attempts(p) /\ poll'[p].outcome = "retr_failed")
             => poll'[p].phase = "running" /\ poll'[p].pos = poll[p].pos + 1
          /\ (AtItem(p) /\ poll'[p].pos = poll[p].pos + 1 /\ ~Attempts(p)
                /\ poll[p].phase = "running")
             => \/ Item(p)[1] = None
                \/ Item(p)[1] \in poll[p].final_at_start
          /\ [poll'[p] EXCEPT !.called = {}] # [poll[p] EXCEPT !.called = {}]
             => \A r \in ledger' : r.status = READ => r \in ledger]_vars

\* C18: when the parse of a fetched message fails its row is set to
\* Unprocessable, the message is not yielded and the loop goes on with the
\* next item; a final row stays final; a poll fetches no message whose
\* identifier had a final row when the poll began.
C18_Unprocessable ==
    [][\A p \in SerialPollers :
          /\ (Attempts(p) /\ poll'[p].outcome = "unparsable")
             => /\ RowStatus(ledger', poll'[p].read_status) = UNPROCESSABLE
                /\ poll'[p].read_status.message_id = Item(p)[1]
                /\ poll'[p].marks = poll[p].marks
                /\ poll'[p].mail_message = poll[p].mail_message
                /\ poll'[p].phase = "running" /\ poll'[p].pos = poll[p].pos + 1
          /\ (Attempts(p) /\ mailbox[Item(p)[2]].body = "malformed")
             => poll'[p].outcome \in {"retr_failed", "unparsable"}
          /\ \A r \in ledger :
                Finalized(r.status)
                => \E q \in ledger' : /\ q.message_id = r.message_id
                                      /\ q.message_num = r.message_num
                                      /\ Finalized(q.status)
          /\ Attempts(p) => Item(p)[1] \notin poll[p].final_at_start]_vars

\* a poll has passed over a message whose parse failed in an earlier poll
C18_Witness ==
    \E p \in SerialPollers :
        /\ poll[p].phase = "running"
        /\ poll[p].pos = 2
        /\ poll[p].items[1][1] \in poll[p].final_at_start
        /\ mailbox[1].body = "malformed"
        /\ \E r \in ledger : r.message_id = poll[p].items[1][1] /\ r.status = UNPROCESSABLE
        /\ poll[p].outcome = "none"

\* C19: the mark function handed out with item k changes the status of the
\* row of item k and of no other row, whenever the caller invokes it.
C19_MarkBound ==
    [][\A p \in SerialPollers :
          \A k \in poll'[p].called \ poll[p].called :
                /\ \A r \in ledger :
                      r \notin ledger' => /\ r.message_id = poll[p].items[k][1]
                                          /\ r.message_num = poll[p].items[k][2]
                /\ Finalized(StatusOf(ledger', p, k))]_vars

\* C20: at most one ledger row per message identifier.
C20_OneRowPerId ==
    \A r, q \in ledger : r.message_id = q.message_id => r.message_num = q.message_num

\* under SpecPollOverlap: both callers hold the same message, fetched and
\* yielded to each of them, and no row of its identifier is final
OverlapDuplicate ==
    \E id \in MessageIds :
        /\ \A p \in Pollers :
              /\ poll[p].phase = "yielded"
              /\ poll[p].mail_message = mailbox[Item(p)[2]]
              /\ Item(p)[1] = id
        /\ \A p, q \in Pollers : Item(p)[2] = Item(q)[2]
        /\ \A r \in ledger : r.message_id = id => ~Finalized(r.status)

\* the caller has invoked every mark function the last poll handed out
AllMarked(p) == poll[p].called = poll[p].marks

\* C21: when polls run one after another and every item a poll yielded is
\* marked before the next poll starts, no message is yielded by two polls:
\* the identifier of every item the last poll yielded is among the seen
\* identifiers of the poll that starts. (That overlapping polls can both be
\* handed one message is the state OverlapDuplicate of SpecPollOverlap.)
C21_SerialNoRepeat ==
    [][\A p \in SerialPollers :
          (poll[p].phase = "idle" /\ poll'[p].phase = "running" /\ AllMarked(p))
          => \A k \in poll[p].marks : poll[p].items[k][1] \in poll'[p].read_messages]_vars

\* the same with "marked" read as "its row is Read or Unprocessable"
SerialNoRepeatOfFinal ==
    [][\A p \in SerialPollers :
          (poll[p].phase = "idle" /\ poll'[p].phase = "running")
          => \A k \in poll[p].marks :
                (\E r \in ledger : /\ r.message_id = poll[p].items[k][1]
                                   /\ r.message_num = poll[p].items[k][2]
                                   /\ Finalized(r.status))
                => poll[p].items[k][1] \in poll'[p].read_messages]_vars

-----------------------------------------------------------------------------
(* Claims about the usage hand-off, checked under SpecUsage (C4, C6) and   *)
(* SpecUsageFair (C5)                                                      *)

\* C4: from the scheduling of a usage batch until its hand-off succeeds a
\* task for it exists, and after every failed attempt, once the runner has
\* recorded it, either the same task is pending with attempts left or a new
\* task with no attempts is pending, due TASK_BACK_OFF seconds later.
C4_TaskRemains ==
    [][\A b \in UsageIds :
          /\ handoff'[b] = "scheduled" => tasks'[b] # <<>>
          /\ \A k \in 1..Len(tasks[b]) :
                (tasks[b][k].state = "raised" /\ tasks'[b] # tasks[b])
                => \/ /\ Len(tasks'[b]) = Len(tasks[b])
                      /\ tasks'[b][k].state = "pending"
                      /\ tasks'[b][k].attempts = tasks[b][k].attempts + 1
                      /\ tasks'[b][k].attempts < MAX_ATTEMPTS
                   \/ /\ tasks[b][k].attempts + 1 >= MAX_ATTEMPTS
                      /\ tasks'[b] = <<NewTask(TASK_BACK_OFF)>>]_vars

\* the task of a batch not yet handed off has used up its attempts and its
\* successor is the one task left
C4_Witness ==
    \E b \in UsageIds : handoff[b] = "scheduled" /\ tasks[b] = <<NewTask(TASK_BACK_OFF)>>

C6_OnePendingTask ==
    \A b \in UsageIds :
        Cardinality({k \in 1..Len(tasks[b]) : tasks[b][k].state = "pending"}) <= 1

\* a max-tried task has scheduled its successor and is not yet recorded
C6_Witness ==
    \E b \in UsageIds :
        /\ Len(tasks[b]) = 2
        /\ tasks[b][1].state = "raised"
        /\ tasks[b][2] = NewTask(TASK_BACK_OFF)

\* C22: when an attempt fails, a new task for the same batch is scheduled if
\* and only if the failing task's attempt number (attempts + 1) has reached
\* MAX_ATTEMPTS; the new task has no attempts and is due TASK_BACK_OFF
\* seconds later; no task reaches MAX_ATTEMPTS stored attempts, so an
\* exhausted task fails once more never, and nothing else than a failure at
\* MAX_ATTEMPTS or the scheduling of the batch adds a task.
C22_NewLineage ==
    [][\A b \in UsageIds :
          /\ \A k \in 1..Len(tasks[b]) :
                (tasks[b][k].state = "running" /\ tasks'[b][k].state = "raised")
                => IF tasks[b][k].attempts + 1 >= MAX_ATTEMPTS
                   THEN tasks'[b] = Append([tasks[b] EXCEPT ![k].state = "raised"],
                                           NewTask(TASK_BACK_OFF))
                   ELSE tasks'[b] = [tasks[b] EXCEPT ![k].state = "raised"]
          /\ \A k \in 1..Len(tasks'[b]) : tasks'[b][k].attempts < MAX_ATTEMPTS
          /\ Len(tasks'[b]) > Len(tasks[b])
             => \/ tasks[b] = <<>> /\ tasks'[b] = <<NewTask(0)>>
                \/ /\ IsRunning(b)
                   /\ tasks[b][Running(b)].attempts + 1 = MAX_ATTEMPTS
                   /\ tasks'[b][Running(b)].state = "raised"]_vars

\* a task has failed its last attempt: its successor is scheduled beside it
C22_Witness ==
    \E b \in UsageIds :
        /\ tasks[b] = <<[attempts |-> MAX_ATTEMPTS - 1, run_at |-> 0, state |-> "raised"],
                        NewTask(TASK_BACK_OFF)>>
        /\ handoff[b] = "scheduled"

\* what a failed attempt is claimed to leave alone: the status of the Mail
\* and the response, accepted and rejected lists of the UsageData row
Recorded(row) ==
    <<row.mail_status, row.lite_response, row.lite_accepted_licences,
      row.lite_rejected_licences>>

\* C23: an attempt ends either raised or returned; it returns only with an
\* answer of status 207 or 208 for an existing UsageData row, whose payload
\* was built (and, for a 207, whose body was parsed); an attempt on a missing
\* row ends raised; an attempt that ends raised leaves the Mail status and
\* the recorded response and accepted and rejected lists as they were.
C23_FailuresRaise ==
    [][\A b \in UsageIds :
          (IsRunning(b) /\ tasks'[b] # tasks[b])
          => /\ tasks'[b][Running(b)].state \in {"raised", "returned"}
             /\ tasks'[b][Running(b)].attempts = tasks[b][Running(b)].attempts
             /\ tasks'[b][Running(b)].state = "returned"
                => /\ usageData[b].exists
                   /\ usageData'[b].lite_payload
                   /\ handoff'[b] = "handed_off"
                   /\ \/ Recorded(usageData'[b]) = Recorded(usageData[b])
                      \/ \E response \in Responses :
                            /\ Parses(response)
                            /\ usageData'[b].lite_response = response
             /\ tasks'[b][Running(b)].state = "raised"
                => /\ Recorded(usageData'[b]) = Recorded(usageData[b])
                   /\ usageData'[b].exists = usageData[b].exists
                   /\ handoff'[b] = handoff[b]
             /\ \A c \in UsageIds \ {b} :
                   usageData'[c] = usageData[c] /\ tasks'[c] = tasks[c]]_vars

\* an attempt has failed on a batch that carries the response of an earlier
\* hand-off
C23_Witness ==
    \E b \in UsageIds :
        /\ \E k \in 1..Len(tasks[b]) : tasks[b][k].state = "raised"
        /\ usageData[b].lite_response \in Responses
        /\ usageData[b].mail_status = REPLY_RECEIVED

\* the row holds the response and the references it carried, and the Mail of
\* a batch without SPIRE data is reply received, that of another as it was
HoldsResponse(b, response) ==
    /\ usageData'[b].lite_response = response
    /\ usageData'[b].lite_accepted_licences = references_of(response.accepted)
    /\ usageData'[b].lite_rejected_licences = references_of(response.rejected)
    /\ usageData'[b].mail_status =
          IF has_spire_data(b) THEN usageData[b].mail_status ELSE REPLY_RECEIVED

\* C24 as claimed: after an attempt that receives a 207 or a 208, the
\* UsageData row holds the response and the accepted and rejected references
\* it carried, and the Mail status is reply received if the batch has no
\* SPIRE data and unchanged if it has.
C24_BothCodesRecorded ==
    [][\A b \in UsageIds, response \in Responses :
          \A status_code \in {HTTP_207_MULTI_STATUS, HTTP_208_ALREADY_REPORTED} :
              HandOff(b, status_code, response) => HoldsResponse(b, response)]_vars

\* C24 amended: after an attempt that receives a 207 whose body parses, the
\* UsageData row holds the response and the references it carried and the
\* Mail status is reply received if the batch has no SPIRE data and
\* unchanged if it has; after an attempt that receives a 208 the attempt has
\* succeeded too, and response, references and Mail status are as before it.
C24_Recorded ==
    [][\A b \in UsageIds, response \in Responses :
          /\ HandOff(b, HTTP_207_MULTI_STATUS, response)
             => HoldsResponse(b, response) /\ handoff'[b] = "handed_off"
          /\ HandOff(b, HTTP_208_ALREADY_REPORTED, response)
             => /\ Recorded(usageData'[b]) = Recorded(usageData[b])
                /\ handoff'[b] = "handed_off"]_vars

\* a batch with SPIRE data holds a response and its Mail is still pending,
\* and a batch without is handed off with no response recorded
C24_Witness ==
    \E b, c \in UsageIds :
        /\ has_spire_data(b)
        /\ handoff[b] = "handed_off"
        /\ usageData[b].lite_response \in Responses
        /\ usageData[b].mail_status = PENDING
        /\ ~has_spire_data(c)
        /\ handoff[c] = "handed_off"
        /\ usageData[c].lite_response = NoResponse
        /\ usageData[c].mail_status = PENDING

-----------------------------------------------------------------------------
(* Claims about the resend builder, checked under SpecResend               *)

\* C9: for a Mail of kind licence data every resend returns as attachment
\* exactly the recorded sent filename and sent data, for kind licence reply
\* exactly the recorded sent response filename and data, unstamped and not
\* rebuilt; every resend of the same Mail returns the same attachment pair.
C9_ResendRecorded ==
    \A k \in 1..Len(resend_dtos) :
        /\ resend_mail.extract_type = LICENCE_DATA
           => resend_dtos[k].attachment = <<resend_mail.sent_filename, resend_mail.sent_data>>
        /\ resend_mail.extract_type = LICENCE_REPLY
           => resend_dtos[k].attachment = <<resend_mail.sent_response_filename,
                                            resend_mail.sent_response_data>>
        /\ resend_mail.extract_type \in {LICENCE_DATA, LICENCE_REPLY}
           => resend_dtos[k].attachment = resend_dtos[1].attachment

\* a sent licence-data Mail was resent twice while the run number at hand
\* differs from the one stamped in the recorded file
C9_Witness ==
    /\ Len(resend_dtos) = 2
    /\ resend_mail.extract_type = LICENCE_DATA
    /\ resend_mail.sent_filename # None
    /\ build_sent_filename(resend_mail.sent_filename, resend_run) # resend_mail.sent_filename
    /\ build_sent_filename(resend_mail.edi_filename, resend_run) # resend_mail.sent_filename

-----------------------------------------------------------------------------
(* Claims about run-number stamping, checked under SpecStamp               *)

\* C11: for a filename of at least 5 underscore-delimited fields and a run
\* number r, build_sent_filename returns a filename of as many fields, equal
\* to the input in every field but index 4, where it has str(r); stamping
\* the result again with r returns the result.
C11_StampFilename ==
    LET given == Split(stamp_in.text, "_")
    IN  (stamp_in.kind = "filename" /\ Len(given) >= 5)
        => \A k \in 1..Len(stamp_out) :
              LET stamped == Split(stamp_out[k], "_")
              IN  /\ ~IsRaise(stamp_out[k])
                  /\ Len(stamped) = Len(given)
                  /\ \A i \in 1..Len(given) : i # 5 => stamped[i] = given[i]
                  /\ stamped[5] = Str(stamp_in.run_number)
                  /\ stamp_out[k] = stamp_out[1]

\* a filename whose fields 3 and 4 both differ from str(r) was stamped twice
C11_Witness ==
    /\ stamp_in.kind = "filename"
    /\ Len(stamp_out) = 2
    /\ Len(Split(stamp_in.text, "_")) > 5
    /\ Split(stamp_in.text, "_")[5] # Str(stamp_in.run_number)
    /\ Split(stamp_in.text, "_")[4] # Str(stamp_in.run_number)
    /\ stamp_in.run_number >= 10

\* C12: for a content whose first line has at least 7 backslash-delimited
\* fields, with or without following lines, and a run number r,
\* build_sent_file_data succeeds; the first line of its result is the
\* input's with str(r) in field index 6, and what follows the first line is
\* the input's, line separators included.
C12_StampFileData ==
    LET given == Split1(stamp_in.text, "\n")
        fields == Split(given[1], "\\")
    IN  (stamp_in.kind = "file_data" /\ Len(fields) >= 7 /\ Len(stamp_out) >= 1)
        => /\ ~IsRaise(stamp_out[1])
           /\ LET stamped == Split1(stamp_out[1], "\n")
              IN  /\ stamped[1] = Join([fields EXCEPT ![7] = Str(stamp_in.run_number)], "\\")
                  /\ Len(stamped) = Len(given)
                  /\ Len(given) = 2 => stamped[2] = given[2]

-----------------------------------------------------------------------------
(* Claims about build_email_message, checked under SpecEmail               *)

\* a valid DTO: present, with an attachment pair of a filename and a content
ValidDto ==
    /\ email_dto # NoDto
    /\ email_dto.attachment # None
    /\ email_dto.attachment[1] # None
    /\ email_dto.attachment[2] # None

\* C13: the message built from a valid DTO has the one From header
\* settings.EMAIL_USER whatever the DTO's sender, the one To header the
\* DTO's receiver and the one Subject header the DTO's subject.
C13_Headers ==
    (ValidDto /\ email_message # NotBuilt)
    => /\ email_message.outcome = "message"
       /\ get_all(email_message, "From") = <<EMAIL_USER>>
       /\ get_all(email_message, "To") = <<email_dto.receiver>>
       /\ get_all(email_message, "Subject") = <<email_dto.subject>>

\* a message was built for a DTO whose sender is not the outbound identity
\* and whose subject is not its attachment's filename
C13_Witness ==
    /\ ValidDto
    /\ email_message.outcome = "message"
    /\ email_dto.sender = HMRC_ADDRESS
    /\ email_dto.subject # email_dto.attachment[1]
    /\ email_dto.attachment[1] # None

\* C14: the message built from a valid DTO has exactly two parts: a
\* plaintext part that holds line ends only, then a part whose
\* Content-Disposition is attachment with the DTO's filename, whose payload
\* is the transliterated content, unencoded, and whose
\* Content-Transfer-Encoding is 7bit, in place of the encoder's default.
C14_Parts ==
    (ValidDto /\ email_message # NotBuilt)
    => /\ email_message.outcome = "message"
       /\ Len(email_message.payload) = 2
       /\ get_all(email_message.payload[1], "Content-Type") = <<TEXT_PLAIN>>
       /\ email_message.payload[1].payload \in {<<>>, <<"\n">>, <<"\n", "\n">>}
       /\ get_all(email_message.payload[2], "Content-Disposition")
              = <<ContentDisposition(email_dto.attachment[1])>>
       /\ email_message.payload[2].payload = unidecode(email_dto.attachment[2])
       /\ get_all(email_message.payload[2], "Content-Transfer-Encoding") = <<SEVEN_BIT>>

\* C15: for a DTO that is absent, or whose attachment is absent, or whose
\* attachment pair lacks the filename or the content, build_email_message
\* raises the TypeError of _validate_dto and builds no message.
C15_Validation ==
    (/\ email_message # NotBuilt
     /\ \/ email_dto = NoDto
        \/ email_dto.attachment = None
        \/ email_dto.attachment[1] = None
        \/ email_dto.attachment[2] = None)
    => email_message = Raised("TypeError")

====
